---- MODULE Spec2Model ----
(***************************************************************************)
(* Teams MCP server (Bot Connector variant): the process-wide token cache, *)
(* getBotConnectorToken, sendActivity and the CallToolRequestSchema        *)
(* handler, as a state machine over the events of the Node event loop.     *)
(*                                                                         *)
(* A handler runs without interruption from one await of a network        *)
(* round trip to the next, so one action is the code between two such     *)
(* suspension points.  Time is Date.now() in milliseconds.                *)
(***************************************************************************)
EXTENDS Integers, Sequences, FiniteSets, TLC

\* ---------------------------------------------------------------- bounds
MaxTicks == 2
MaxCalls == 2

TickMs == 60 * 1000
Callers == {"a", "b"}

\* ------------------------------------------------------------ JS values
\* A JavaScript value is <<typeof, payload>>; Str(0) is the empty string,
\* Str(n) for n > 0 a non-empty string, Num(n) the number n.
Undefined == <<"undefined", 0>>
Str(n) == <<"string", n>>
Num(n) == <<"number", n>>
Bool(b) == <<"boolean", IF b THEN 1 ELSE 0>>
\* A JSON array of the values of s, a JSON object of the properties of r.
Arr(s) == <<"array", s>>
Obj(r) == <<"object", r>>
\* The strings the schemas name and the example strings of URLs, as strings
\* of their own.
Names ==
    <<"AdaptiveCard", "TextBlock", "Image", "FactSet", "ColumnSet", "Column",
      "Container", "ActionSet", "Action.Submit", "Action.OpenUrl",
      "Action.ShowCard", "Bogus", "1.4", "1.5", "Default", "Lighter", "Bolder",
      "Small", "Medium", "Large", "ExtraLarge", "Dark", "Light", "Accent",
      "Good", "Warning", "Attention", "Left", "Center", "Right", "None",
      "Auto", "Stretch", "Person", "Top", "Bottom", "Emphasis", "default",
      "positive", "destructive", "https://example.com/a.png", "not a url">>
S(name) == Str(100 + CHOOSE i \in 1..Len(Names) : Names[i] = name)
Truthy(v) ==
    IF v[1] \in {"object", "array"} THEN TRUE ELSE v[1] # "undefined" /\ v[2] # 0
TypeOf(v) == v[1]
\* a || b
Or(a, b) == IF Truthy(a) THEN a ELSE b

NoBody == "none"
NoPath == <<>>
Err(msg, status, body, path) ==
    [ok |-> FALSE, msg |-> msg, status |-> status, body |-> body, path |-> path,
     text |-> "none"]
Ok(text) ==
    [ok |-> TRUE, msg |-> "none", status |-> 0, body |-> NoBody, path |-> NoPath,
     text |-> text]
NoResult == Err("pending", 0, NoBody, NoPath)

\* ---------------------------------------------------------------- state
VARIABLES
    phase,       \* "boot" | "serving" | "exited"   (runStdioServer)
    env,         \* process.env, fixed for the life of the process
    clock,       \* Date.now()
    tokenCache,  \* the module-level tokenCache
    call,        \* the handler activation of each caller, idle when none
    reply,       \* the answer the latest step gave to a tool call, if it gave
                 \* one, with the numbers of requests that call had sent
    ncalls       \* tool calls received so far (numbers the calls)

vars == <<phase, env, clock, tokenCache, call, reply, ncalls>>

NullCache == [null |-> TRUE, token |-> Undefined, expiresAt |-> 0]

BufferMs == 5 * 60 * 1000

\* request.params.arguments when the request has none.
NoArguments ==
    [defined |-> FALSE, text |-> Undefined, card |-> Undefined, thread_id |-> Undefined]

\* The locals of a handler activation, with the arguments of its request, and
\* the requests it has sent.
IdleCall ==
    [pc |-> "idle", now |-> 0, reqId |-> 0,
     tokenPosts |-> 0, tokenUrl |-> "none", token |-> Undefined,
     sendPosts |-> 0, bearer |-> Undefined, sendUrl |-> <<>>,
     replyToId |-> Undefined, actionType |-> "none", card |-> Undefined,
     hit |-> FALSE, result |-> NoResult, arguments |-> NoArguments]

NoReply ==
    [result |-> NoResult, tokenPosts |-> 0, sendPosts |-> 0, arguments |-> NoArguments]

\* ------------------------------------------------- getBotConnectorToken
\* CacheHit with twice the margin.
CacheHitLate(cache, now) == ~cache.null /\ cache.expiresAt > now + 2 * BufferMs

\* The cache test of getBotConnectorToken: a token is cached and expires
\* more than five minutes after now.
CacheHit(cache, now) == ~cache.null /\ cache.expiresAt > now + BufferMs

\* The token endpoint the exchange is POSTed to.
TokenUrl(e) == "botframework.com"

\* MissingCredentials with "and" for "or".
MissingCredentialsBoth(e) == ~e.appId /\ ~e.appPassword

\* getBotConnectorToken up to its first await: a cache hit returns the token,
\* missing credentials throw, otherwise the exchange request is sent.
MissingCredentials(e) == ~e.appId \/ ~e.appPassword

GetTokenStart(now, cache, e) ==
    IF CacheHit(cache, now)
    THEN [kind |-> "hit", token |-> cache.token, error |-> NoResult, url |-> "none"]
    ELSE IF MissingCredentials(e)
    THEN [kind |-> "throw", token |-> Undefined,
          error |-> Err("TEAMS_BOT_APP_ID and TEAMS_BOT_APP_PASSWORD must be set",
                        0, NoBody, NoPath),
          url |-> "none"]
    ELSE [kind |-> "fetch", token |-> Undefined, error |-> NoResult,
          url |-> TokenUrl(e)]

\* The error thrown on a non-success status of the token endpoint: the
\* message holds the status; the body is only written to the console.
TokenRequestFailed(r) ==
    Err("Failed to get Bot Connector token", r.status, NoBody, NoPath)

\* The test applied to the parsed body of a success response.
InvalidTokenData(r) ==
    ~Truthy(r.access_token) \/ TypeOf(r.expires_in) # "number"

\* NewCache reading a field the response does not have.
NewCacheOtherField(now, r) ==
    [null |-> FALSE, token |-> Undefined,
     expiresAt |-> now + r.expires_in[2] * 1000]

\* NewCache with the lifetime taken as milliseconds.
NewCacheSeconds(now, r) ==
    [null |-> FALSE, token |-> r.access_token,
     expiresAt |-> now + r.expires_in[2]]

\* The value assigned to tokenCache after a valid response.
NewCache(now, r) ==
    [null |-> FALSE, token |-> r.access_token,
     expiresAt |-> now + r.expires_in[2] * 1000]

\* Throw after resetting tokenCache to null.
ThrowClearing(error, cache) ==
    [threw |-> TRUE, error |-> error, cache |-> NullCache, token |-> Undefined]

\* A throw out of getBotConnectorToken: no statement on the way assigns
\* tokenCache.
Throw(error, cache) ==
    [threw |-> TRUE, error |-> error, cache |-> cache, token |-> Undefined]

\* StoreAndReturn that keeps a token another call cached meanwhile.
StoreUnlessFresh(now, cache, r) ==
    [threw |-> FALSE, error |-> NoResult,
     cache |-> IF ~cache.null /\ cache.expiresAt > now + BufferMs
               THEN cache ELSE NewCache(now, r),
     token |-> r.access_token]

\* The end of getBotConnectorToken on a valid response: tokenCache is
\* assigned, whatever it holds by then, and the new token returned.
StoreAndReturn(now, cache, r) ==
    [threw |-> FALSE, error |-> NoResult,
     cache |-> NewCache(now, r), token |-> r.access_token]

\* getBotConnectorToken from the await of fetch to its end, for the response r
\* to the call that read Date.now() as now.
GetTokenFinish(now, cache, r) ==
    IF r.net = "reject"
    THEN Throw(Err("fetch failed", 0, NoBody, NoPath), cache)
    ELSE IF ~r.ok
    THEN Throw(TokenRequestFailed(r), cache)
    ELSE IF r.json = "unparseable"
    THEN Throw(Err("Failed to parse Bot Connector token response as JSON",
                   0, NoBody, NoPath), cache)
    ELSE IF r.json = "null"
    THEN Throw(Err("TypeError: Cannot read properties of null (reading 'access_token')",
                   0, NoBody, NoPath), cache)
    ELSE IF InvalidTokenData(r)
    THEN Throw(Err("Invalid token response: missing access_token or expires_in",
                   0, NoBody, NoPath), cache)
    ELSE StoreAndReturn(now, cache, r)

\* ---------------------------------------------------------- sendActivity
\* The endpoint of the message POST, as the path segments after the
\* conversation: the reply endpoint of replyToId when replyToId is truthy,
\* the conversation's activities endpoint otherwise.
SendUrl(replyToId) ==
    IF Truthy(replyToId) THEN <<"activities", replyToId>> ELSE <<"activities">>

\* PostActivity sending the message twice.
PostActivityTwice(rec) ==
    [rec EXCEPT !.pc = "awaitSend", !.now = 0, !.sendPosts = @ + 2,
                !.bearer = rec.token, !.sendUrl = SendUrl(rec.replyToId)]

\* The message POST of sendActivity, with the token getBotConnectorToken gave
\* (whose own locals are gone once it has returned).
PostActivity(rec) ==
    [rec EXCEPT !.pc = "awaitSend", !.now = 0, !.sendPosts = @ + 1,
                !.bearer = rec.token, !.sendUrl = SendUrl(rec.replyToId)]

Failed(rec, e) == [rec EXCEPT !.pc = "done", !.result = e]

\* sendActivity up to its first network await.
SendActivityStart(rec, now, cache, e, id) ==
    LET g == GetTokenStart(now, cache, e) IN
    CASE g.kind = "hit" ->
            PostActivity([rec EXCEPT !.token = g.token, !.hit = TRUE])
      [] g.kind = "throw" -> Failed(rec, g.error)
      [] g.kind = "fetch" ->
            [rec EXCEPT !.pc = "awaitToken", !.now = now, !.reqId = id,
                        !.tokenPosts = @ + 1, !.tokenUrl = g.url]

\* sendActivity after the message POST and the handler's use of its result.
SendFinish(rec, r) ==
    IF r.net = "reject"
    THEN Err("fetch failed", 0, NoBody, NoPath)
    ELSE IF ~r.ok
    THEN Err("Failed to send activity", r.status, r.text, NoPath)
    ELSE IF r.json = "unparseable"
    THEN Err("Failed to parse send activity response as JSON", 0, NoBody, NoPath)
    ELSE IF r.json = "null"
    THEN Err("TypeError: Cannot read properties of null (reading 'id')",
             0, NoBody, NoPath)
    ELSE Ok(rec.actionType)

\* ------------------------------------------------------------------- zod
\* The schemas of schemas.ts are data, and Parse is zod's parse of a value
\* against a schema at a path: it gives the status (valid, dirty when only a
\* check such as a maximal length or the URL syntax failed, aborted), the
\* parsed value and the paths of the issues of the ZodError, those nested in
\* the unionErrors of an invalid_union issue included.
ZString == [kind |-> "string"]
ZUrl == [kind |-> "url"]
ZNumber == [kind |-> "number"]
ZBoolean == [kind |-> "boolean"]
ZUnknown == [kind |-> "unknown"]
ZLiteral(name) == [kind |-> "enum", values |-> {S(name)}]
ZEnum(names) == [kind |-> "enum", values |-> {S(n) : n \in names}]
ZOptional(s) == [kind |-> "optional", inner |-> s]
ZDefault(s, v) == [kind |-> "default", inner |-> s, value |-> v]
ZArray(s) == [kind |-> "array", inner |-> s, bounded |-> FALSE, max |-> 0]
\* ZArrayMax without the bound.
ZArrayMaxIgnored(s, n) == ZArray(s)
ZArrayMax(s, n) == [kind |-> "array", inner |-> s, bounded |-> TRUE, max |-> n]
ZObject(shape) == [kind |-> "object", shape |-> shape]
ZUnion(options) == [kind |-> "union", options |-> options]
ZLazy(name) == [kind |-> "lazy", name |-> name]

Valid(v) == [status |-> "valid", value |-> v, issues |-> <<>>]
Dirty(v, path) == [status |-> "dirty", value |-> v, issues |-> <<path>>]
Invalid(path) == [status |-> "aborted", value |-> Undefined, issues |-> <<path>>]

\* ParseStatus.mergeArray / mergeObjectSync: one aborted part aborts the
\* whole, one dirty part makes it dirty.
Merge(rs) ==
    IF \E i \in DOMAIN rs : rs[i].status = "aborted" THEN "aborted"
    ELSE IF \E i \in DOMAIN rs : rs[i].status = "dirty" THEN "dirty"
    ELSE "valid"

\* The strings new URL() accepts.
IsUrl(v) == v = S("https://example.com/a.png")

Least(is) == CHOOSE i \in is : \A j \in is : i <= j

\* ------------------------------------------------------------ schemas.ts
MaxFacts == 10
MaxBody == 50

Spacing == ZEnum({"None", "Small", "Default", "Medium", "Large", "ExtraLarge"})
HorizontalAlignment == ZEnum({"Left", "Center", "Right"})

TextBlockSchema ==
    ZObject(<< <<"type", ZLiteral("TextBlock")>>,
               <<"text", ZString>>,
               <<"weight", ZOptional(ZEnum({"Default", "Lighter", "Bolder"}))>>,
               <<"size", ZOptional(ZEnum({"Default", "Small", "Medium", "Large",
                                          "ExtraLarge"}))>>,
               <<"color", ZOptional(ZEnum({"Default", "Dark", "Light", "Accent",
                                           "Good", "Warning", "Attention"}))>>,
               <<"wrap", ZOptional(ZBoolean)>>,
               <<"isSubtle", ZOptional(ZBoolean)>>,
               <<"maxLines", ZOptional(ZNumber)>>,
               <<"horizontalAlignment", ZOptional(HorizontalAlignment)>>,
               <<"spacing", ZOptional(Spacing)>>,
               <<"separator", ZOptional(ZBoolean)>> >>)

ImageSchema ==
    ZObject(<< <<"type", ZLiteral("Image")>>,
               <<"url", ZUrl>>,
               <<"altText", ZOptional(ZString)>>,
               <<"size", ZOptional(ZEnum({"Auto", "Stretch", "Small", "Medium",
                                          "Large"}))>>,
               <<"style", ZOptional(ZEnum({"Default", "Person"}))>>,
               <<"horizontalAlignment", ZOptional(HorizontalAlignment)>>,
               <<"width", ZOptional(ZString)>>,
               <<"height", ZOptional(ZString)>> >>)

FactSchema == ZObject(<< <<"title", ZString>>, <<"value", ZString>> >>)

FactSetSchema ==
    ZObject(<< <<"type", ZLiteral("FactSet")>>,
               <<"facts", ZArrayMax(FactSchema, MaxFacts)>>,
               <<"spacing", ZOptional(Spacing)>>,
               <<"separator", ZOptional(ZBoolean)>> >>)

ColumnSchema ==
    ZObject(<< <<"type", ZLiteral("Column")>>,
               <<"width", ZOptional(ZUnion(<<ZString, ZNumber>>))>>,
               <<"items", ZOptional(ZArray(ZLazy("CardElementSchema")))>>,
               <<"verticalContentAlignment",
                 ZOptional(ZEnum({"Top", "Center", "Bottom"}))>>,
               <<"spacing", ZOptional(Spacing)>> >>)

ColumnSetSchema ==
    ZObject(<< <<"type", ZLiteral("ColumnSet")>>,
               <<"columns", ZArray(ColumnSchema)>>,
               <<"spacing", ZOptional(Spacing)>>,
               <<"separator", ZOptional(ZBoolean)>> >>)

ContainerSchema ==
    ZObject(<< <<"type", ZLiteral("Container")>>,
               <<"items", ZArray(ZLazy("CardElementSchema"))>>,
               <<"style", ZOptional(ZEnum({"Default", "Emphasis", "Good",
                                           "Attention", "Warning"}))>>,
               <<"spacing", ZOptional(Spacing)>>,
               <<"separator", ZOptional(ZBoolean)>> >>)

ActionSchema ==
    ZObject(<< <<"type", ZEnum({"Action.Submit", "Action.OpenUrl",
                                "Action.ShowCard"})>>,
               <<"title", ZString>>,
               <<"data", ZOptional(ZUnknown)>>,
               <<"url", ZOptional(ZString)>>,
               <<"style", ZOptional(ZEnum({"default", "positive",
                                           "destructive"}))>> >>)

ActionSetSchema ==
    ZObject(<< <<"type", ZLiteral("ActionSet")>>,
               <<"actions", ZArray(ActionSchema)>> >>)

\* The union of the six element schemas, in the order zod tries them.
CardElementUnion ==
    ZUnion(<<TextBlockSchema, ImageSchema, FactSetSchema, ColumnSetSchema,
             ContainerSchema, ActionSetSchema>>)

CardElementSchema == ZLazy("CardElementSchema")

\* The getter of a z.lazy schema.
Resolve(name) == CASE name = "CardElementSchema" -> CardElementUnion

AdaptiveCardSchema ==
    ZObject(<< <<"type", ZLiteral("AdaptiveCard")>>,
               <<"version", ZDefault(ZString, S("1.4"))>>,
               <<"body", ZArrayMax(CardElementUnion, MaxBody)>>,
               <<"actions", ZOptional(ZArray(ActionSchema))>>,
               <<"$schema", ZOptional(ZString)>> >>)

\* The property k of an object, undefined when it has none.
Field(v, k) == IF k \in DOMAIN v[2] THEN v[2][k] ELSE Undefined

\* Values in the opposite order.
ValuesReversed(rs) == <<>> \o [i \in 1..Len(rs) |-> rs[Len(rs) + 1 - i].value]
\* The values of the parts of an array, in the order of the parts.
Values(rs) == <<>> \o [i \in 1..Len(rs) |-> rs[i].value]

\* The issues of the parts lo..hi of an array or of an object, in the order
\* of the parts.
RECURSIVE IssuesIn(_, _, _)
IssuesIn(rs, lo, hi) ==
    IF lo > hi THEN <<>>
    ELSE IF lo = hi THEN rs[lo].issues
    ELSE IssuesIn(rs, lo, (lo + hi) \div 2) \o IssuesIn(rs, (lo + hi) \div 2 + 1, hi)

Issues(rs) == IssuesIn(rs, 1, Len(rs))

\* ArrayResult that takes every item as valid.
ArrayResultLenient(s, items, path, rs) ==
    [status |-> "valid", value |-> Arr(Values(rs)), issues |-> <<>>]
\* ZodArray: rs are the results of the items; a length over the maximum is
\* an issue at the array that does not abort.
ArrayResult(s, items, path, rs) ==
    IF \E i \in DOMAIN rs : rs[i].status = "aborted"
    THEN [status |-> "aborted", value |-> Undefined,
          issues |-> (IF s.bounded /\ Len(items) > s.max THEN <<path>> ELSE <<>>)
                     \o Issues(rs)]
    ELSE [status |-> IF s.bounded /\ Len(items) > s.max THEN "dirty" ELSE Merge(rs),
          value |-> Arr(Values(rs)),
          issues |-> (IF s.bounded /\ Len(items) > s.max THEN <<path>> ELSE <<>>)
                     \o Issues(rs)]

\* The keys of the shape that the parsed object keeps: those the input has
\* and those that parsed to a value (a default).
Kept(shape, data, rs) ==
    {i \in 1..Len(shape) :
        shape[i][1] \in DOMAIN data \/ TypeOf(rs[i].value) # "undefined"}

\* ZodObject: rs are the results of the keys of the shape, and the keys of
\* the input the shape does not have are stripped.
ObjectResult(shape, data, rs) ==
    IF \E i \in DOMAIN rs : rs[i].status = "aborted"
    THEN [status |-> "aborted", value |-> Undefined, issues |-> Issues(rs)]
    ELSE [status |-> Merge(rs),
          value |-> Obj([k \in {shape[i][1] : i \in Kept(shape, data, rs)} |->
                            rs[CHOOSE i \in 1..Len(shape) : shape[i][1] = k].value]
                        @@ <<>>),
          issues |-> Issues(rs)]

\* ZodUnion: rs are the results of the options; the first valid one is the
\* result, else the first dirty one, else an invalid_union issue at the
\* value that carries the issues of every option.
UnionResult(path, rs) ==
    IF \E i \in DOMAIN rs : rs[i].status = "valid"
    THEN rs[Least({i \in 1..Len(rs) : rs[i].status = "valid"})]
    ELSE IF \E i \in 1..Len(rs) : rs[i].status = "dirty"
    THEN rs[Least({i \in 1..Len(rs) : rs[i].status = "dirty"})]
    ELSE [status |-> "aborted", value |-> Undefined, issues |-> <<path>> \o Issues(rs)]

\* Parse gives its results to ArrayResult, ObjectResult and UnionResult as
\* sequences: of the items of an array, each parsed at its index; of the
\* keys of a shape, each parsed at its key (a key the input does not have
\* parses as undefined); and of the options of a union, each parsing the
\* same value at the same path.
RECURSIVE Parse(_, _, _)
Parse(s, v, path) ==
    CASE s.kind = "string" -> IF TypeOf(v) = "string" THEN Valid(v) ELSE Invalid(path)
      [] s.kind = "number" -> IF TypeOf(v) = "number" THEN Valid(v) ELSE Invalid(path)
      [] s.kind = "boolean" -> IF TypeOf(v) = "boolean" THEN Valid(v) ELSE Invalid(path)
      [] s.kind = "unknown" -> Valid(v)
      [] s.kind = "url" ->
            IF TypeOf(v) # "string" THEN Invalid(path)
            ELSE IF IsUrl(v) THEN Valid(v) ELSE Dirty(v, path)
      [] s.kind = "enum" ->
            IF TypeOf(v) = "string" /\ v \in s.values THEN Valid(v) ELSE Invalid(path)
      [] s.kind = "optional" /\ TypeOf(v) = "undefined" -> Valid(Undefined)
      [] s.kind = "optional" /\ TypeOf(v) # "undefined" -> Parse(s.inner, v, path)
      [] s.kind = "default" ->
            Parse(s.inner, IF TypeOf(v) = "undefined" THEN s.value ELSE v, path)
      [] s.kind = "lazy" -> Parse(Resolve(s.name), v, path)
      [] s.kind = "array" /\ TypeOf(v) # "array" -> Invalid(path)
      [] s.kind = "array" /\ TypeOf(v) = "array" ->
            ArrayResult(s, v[2], path,
                <<>> \o [i \in 1..Len(v[2]) |->
                            Parse(s.inner, v[2][i], Append(path, ToString(i - 1)))])
      [] s.kind = "object" /\ TypeOf(v) # "object" -> Invalid(path)
      [] s.kind = "object" /\ TypeOf(v) = "object" ->
            ObjectResult(s.shape, v[2],
                <<>> \o [i \in 1..Len(s.shape) |->
                            Parse(s.shape[i][2], Field(v, s.shape[i][1]),
                                  Append(path, s.shape[i][1]))])
      [] s.kind = "union" ->
            UnionResult(path,
                <<>> \o [i \in 1..Len(s.options) |-> Parse(s.options[i], v, path)])

\* -------------------------------------------------------------- requests
\* Card elements as a client sends them.
TextBlock(text) == Obj([type |-> S("TextBlock"), text |-> text])
Fact(n) == Obj([title |-> Str(n), value |-> Str(n)])
FactSet(n) == Obj([type |-> S("FactSet"), facts |-> Arr([i \in 1..n |-> Fact(i)])])
Column(items) == Obj([type |-> S("Column"), items |-> Arr(items)])
ColumnSet(columns) == Obj([type |-> S("ColumnSet"), columns |-> Arr(columns)])
Container(items) == Obj([type |-> S("Container"), items |-> Arr(items)])
Card(body) == Obj([type |-> S("AdaptiveCard"), body |-> Arr(body)])
Repeat(x, n) == [i \in 1..n |-> x]
Bogus == Obj([type |-> S("Bogus")])
Image(url) == Obj([type |-> S("Image"), url |-> url])
Action(type) == Obj([type |-> S(type), title |-> Str(1)])
ActionSet(actions) == Obj([type |-> S("ActionSet"), actions |-> Arr(actions)])

\* A card of one text block, and a card of one element of no known type.
SimpleCard == Card(<<TextBlock(Str(1))>>)
BogusCard == Card(<<Bogus>>)

\* Elements of each kind that follow the grammar: with and without optional
\* properties, and with arrays at and above the lengths the grammar bounds
\* elsewhere.
GoodElements ==
    {TextBlock(Str(1)),
     TextBlock(Str(0)),
     Obj([type |-> S("TextBlock"), text |-> Str(2), wrap |-> Bool(TRUE),
          weight |-> S("Bolder"), maxLines |-> Num(2)]),
     Image(S("https://example.com/a.png")),
     FactSet(0), FactSet(2), FactSet(MaxFacts),
     ActionSet(<<Action("Action.Submit"),
                 Obj([type |-> S("Action.OpenUrl"), title |-> Str(2),
                      url |-> S("https://example.com/a.png"),
                      data |-> Obj([key |-> Num(1)])])>>),
     Container(<<>>),
     Container(Repeat(TextBlock(Str(1)), MaxBody + 1)),
     ColumnSet(<<>>),
     ColumnSet(<<Obj([type |-> S("Column")]),
                 Obj([type |-> S("Column"), width |-> Num(2)]),
                 Obj([type |-> S("Column"), width |-> S("Auto"),
                      items |-> Arr(<<>>)])>>),
     ColumnSet(Repeat(Column(<<TextBlock(Str(1))>>), MaxFacts + 1))}

\* Elements that break the grammar in one place: no or an unknown type, a
\* type of another position, a required property missing or of the wrong
\* type, a URL that is none, a list of facts that is too long.
BadElements ==
    {Bogus,
     Str(1),
     Obj([text |-> Str(1)]),
     Obj([type |-> S("TextBlock")]),
     TextBlock(Num(1)),
     Column(<<TextBlock(Str(1))>>),
     Action("Action.Submit"),
     Image(Undefined),
     Image(Num(1)),
     Image(S("not a url")),
     Obj([type |-> S("FactSet")]),
     Obj([type |-> S("FactSet"), facts |-> Arr(<<Obj([title |-> Str(1)])>>)]),
     FactSet(MaxFacts + 1),
     Obj([type |-> S("Container")]),
     Obj([type |-> S("Container"), items |-> Str(1)]),
     Obj([type |-> S("ColumnSet")]),
     ColumnSet(<<TextBlock(Str(1))>>),
     ColumnSet(<<Obj([type |-> S("Column"), items |-> Str(1)])>>),
     Obj([type |-> S("ActionSet")]),
     ActionSet(<<Action("Bogus")>>),
     Obj([type |-> S("TextBlock"), text |-> Str(1), weight |-> S("Bogus")])}

\* An element with a property the grammar does not have.
ExtraElements == {Obj([type |-> S("TextBlock"), text |-> Str(1), id |-> Str(3)])}

\* An element that holds no list, and one whose lists hold only such
\* elements.
Leaf(x) == TypeOf(x) # "object" \/ \A k \in DOMAIN x[2] : TypeOf(x[2][k]) # "array"
Flat(x) ==
    TypeOf(x) # "object"
    \/ \A k \in DOMAIN x[2] :
          TypeOf(x[2][k]) = "array" => \A i \in DOMAIN x[2][k][2] : Leaf(x[2][k][2][i])

\* The places of an element x: on its own, after another in a Container, in
\* the first of two Columns; for an element whose lists hold no lists, in a
\* Column of a ColumnSet in a Container; and for an element without lists,
\* in a Container in a Column of a ColumnSet in a Container.
Nestings(x) ==
    {x,
     Container(<<TextBlock(Str(2)), x>>),
     ColumnSet(<<Column(<<x>>), Column(<<TextBlock(Str(2))>>)>>)}
    \cup (IF Flat(x)
          THEN {Container(<<ColumnSet(<<Column(<<TextBlock(Str(3)), x>>)>>)>>)}
          ELSE {})
    \cup (IF Leaf(x)
          THEN {Container(<<ColumnSet(<<Column(<<Container(<<TextBlock(Str(3)), x>>)>>),
                                       Column(<<Container(<<TextBlock(Str(2)),
                                                            TextBlock(Str(1))>>)>>)>>)>>)}
          ELSE {})

\* The cards of a set of elements: each element in each place as the body,
\* alone and after a text block.
CardsOf(elements) ==
    UNION {{Card(<<y>>), Card(<<TextBlock(Str(2)), y>>)} :
                y \in UNION {Nestings(x) : x \in elements}}

\* Cards that follow the grammar: those of the good elements, the empty
\* card, cards with a version, a schema and actions, and a body of the
\* greatest length.
GoodCards ==
    CardsOf(GoodElements)
    \cup {Card(<<>>),
          Card(Repeat(TextBlock(Str(1)), MaxBody)),
          Obj([type |-> S("AdaptiveCard"), version |-> S("1.5"),
               body |-> Arr(<<TextBlock(Str(1)), Image(S("https://example.com/a.png"))>>)]),
          Obj([type |-> S("AdaptiveCard"), body |-> Arr(<<TextBlock(Str(1))>>),
               actions |-> Arr(<<Action("Action.ShowCard")>>)]
              @@ ("$schema" :> Str(4)))}

\* Cards that break it: those of the bad elements, bodies that are too long,
\* and roots without a body or of another type.
BadCards ==
    CardsOf(BadElements)
    \cup {Card(Repeat(TextBlock(Str(1)), MaxBody + 1)),
          Card(Repeat(FactSet(MaxFacts + 1), MaxBody + 1)),
          Card(Repeat(Bogus, MaxBody + 1)),
          Obj([type |-> S("AdaptiveCard")]),
          Obj([type |-> S("Bogus"), body |-> Arr(<<>>)]),
          Obj([type |-> S("AdaptiveCard"), body |-> Arr(<<TextBlock(Str(1))>>),
               actions |-> Arr(<<Action("Bogus")>>)]),
          Str(1)}

ExtraCards ==
    CardsOf(ExtraElements)
    \cup {Obj([type |-> S("AdaptiveCard"), body |-> Arr(<<>>), lang |-> Str(5)])}

Cards == GoodCards \cup BadCards \cup ExtraCards

Request(name, text, card, thread_id) ==
    [hasParams |-> TRUE, name |-> name,
     arguments |-> [defined |-> TRUE, text |-> text, card |-> card,
                    thread_id |-> thread_id]]

\* The requests of the server's specification: each way the handler can end
\* before sendActivity, and valid requests of both tools.
Requests ==
    {[hasParams |-> FALSE, name |-> "none", arguments |-> NoArguments],
     [hasParams |-> TRUE, name |-> "unknown_tool", arguments |-> NoArguments],
     Request("teams_post_message", Undefined, Undefined, Undefined),
     Request("teams_post_message", Str(1), Undefined, Undefined),
     Request("teams_post_rich_message", Undefined, Undefined, Undefined),
     Request("teams_post_rich_message", Undefined, BogusCard, Undefined),
     Request("teams_post_rich_message", Str(0), SimpleCard, Undefined)}

ThreadIds == {Undefined, Str(0), Str(2), Num(3)}

\* Valid calls of both tools whose thread_id is absent, empty, a thread or
\* not a string.
ThreadRequests ==
    {Request("teams_post_message", Str(1), Undefined, t) : t \in ThreadIds}
    \cup {Request("teams_post_rich_message", Str(0), SimpleCard, t) : t \in ThreadIds}

\* Calls of teams_post_rich_message: every card without a text, and a text
\* that is absent, empty, a string or a number with no card, a card that
\* follows the grammar and one that does not.
CardTexts == {Undefined, Str(0), Str(1), Num(1)}

CardRequests ==
    {Request("teams_post_rich_message", Undefined, c, Undefined) : c \in Cards}
    \cup {Request("teams_post_rich_message", t, c, Undefined) :
            t \in CardTexts, c \in {Undefined, SimpleCard, BogusCard}}
    \cup {[hasParams |-> TRUE, name |-> "teams_post_rich_message",
           arguments |-> NoArguments]}

\* The arguments of the requests of the specifications, and their parses,
\* which depend on nothing else, made once for all calls.
AllArguments ==
    {req.arguments : req \in Requests \cup ThreadRequests \cup CardRequests}

\* -------------------------------------------------------------- handler
\* getEnvConfig: the service URL and the conversation id are required.
GetEnvConfig(e) ==
    IF ~e.serviceUrl
    THEN [ok |-> FALSE, error |-> Err("TEAMS_SERVICE_URL is not set", 0, NoBody, NoPath),
          threadId |-> Undefined]
    ELSE IF ~e.conversationId
    THEN [ok |-> FALSE,
          error |-> Err("TEAMS_CONVERSATION_ID is not set", 0, NoBody, NoPath),
          threadId |-> Undefined]
    ELSE [ok |-> TRUE, error |-> NoResult, threadId |-> e.threadId]

\* resolveThreadContext preferring the environment's thread to the argument.
ResolveThreadContextConfigFirst(argsThreadId, configThreadId, messageType) ==
    LET replyToId == Or(configThreadId, argsThreadId) IN
    [replyToId |-> replyToId,
     actionType |-> IF Truthy(replyToId) THEN "Reply sent to thread"
                    ELSE IF messageType = "rich" THEN "Rich message posted"
                    ELSE "Message posted"]

\* resolveThreadContext
ResolveThreadContext(argsThreadId, configThreadId, messageType) ==
    LET replyToId == Or(argsThreadId, configThreadId) IN
    [replyToId |-> replyToId,
     actionType |-> IF Truthy(replyToId) THEN "Reply sent to thread"
                    ELSE IF messageType = "rich" THEN "Rich message posted"
                    ELSE "Message posted"]

\* request.params.arguments as the value the schemas parse: undefined, or
\* the object of the properties that are there.
ArgumentKeys == {"text", "card", "thread_id"}
Arguments(a) ==
    IF ~a.defined THEN Undefined
    ELSE Obj([k \in {j \in ArgumentKeys : TypeOf(a[j]) # "undefined"} |-> a[k]])


PostMessageRequestSchema ==
    ZObject(<< <<"text", ZString>>, <<"thread_id", ZOptional(ZString)>> >>)

PostMessageParsed ==
    [a \in AllArguments |-> Parse(PostMessageRequestSchema, Arguments(a), <<>>)]

\* PostMessageRequestSchema.parse(request.params.arguments)
PostMessageParse(a) == PostMessageParsed[a]

\* PostMessageRequestSchema.parse: the paths of the issues, none when valid.
PostMessageIssues(a) == PostMessageParse(a).issues

\* The object schema PostRichMessageRequestSchema refines.
PostRichMessageObject ==
    ZObject(<< <<"text", ZOptional(ZString)>>,
               <<"card", ZOptional(AdaptiveCardSchema)>>,
               <<"thread_id", ZOptional(ZString)>> >>)

\* The refinement data.text || data.card, run on an object that did not
\* abort: its issue is at the path text, card.
Refine(inner) ==
    IF inner.status = "aborted" THEN inner
    ELSE IF Truthy(Or(Field(inner.value, "text"), Field(inner.value, "card")))
    THEN inner
    ELSE [inner EXCEPT !.status = "dirty",
                       !.issues = @ \o << <<"text", "card">> >>]

PostRichMessageParsed ==
    [a \in AllArguments |-> Refine(Parse(PostRichMessageObject, Arguments(a), <<>>))]

\* PostRichMessageRequestSchema.parse(request.params.arguments)
PostRichMessageParse(a) == PostRichMessageParsed[a]

\* PostRichMessageRequestSchema.parse: the paths of the issues, none when
\* valid.
PostRichMessageIssues(a) == PostRichMessageParse(a).issues

ValidationError(issues) == Err("ZodError", 0, NoBody, issues)

\* The handler's case of a tool after the parse of the arguments: parse
\* throws the ZodError of its issues, and otherwise the thread is resolved and
\* the message, with the card when there is one, goes to sendActivity.
PostResolved(rec, t, card, now, cache, e, id) ==
    SendActivityStart([rec EXCEPT !.replyToId = t.replyToId,
                                  !.actionType = t.actionType,
                                  !.card = card],
                      now, cache, e, id)

PostParsed(rec, parsed, messageType, config, now, cache, e, id) ==
    IF parsed.status # "valid"
    THEN Failed(rec, ValidationError(parsed.issues))
    ELSE PostResolved(rec,
                      ResolveThreadContext(Field(parsed.value, "thread_id"),
                                           config.threadId, messageType),
                      Field(parsed.value, "card"), now, cache, e, id)

\* The activation of the handler for a request.
Started(req) == [IdleCall EXCEPT !.arguments = req.arguments]

\* The CallToolRequestSchema handler up to its first network await, as the
\* record of the call.
HandleCall(req, now, cache, e, id) ==
    IF ~req.hasParams
    THEN Failed(Started(req), Err("Params are required", 0, NoBody, NoPath))
    ELSE IF ~GetEnvConfig(e).ok THEN Failed(Started(req), GetEnvConfig(e).error)
    ELSE CASE req.name = "teams_post_message" ->
                PostParsed(Started(req), PostMessageParse(req.arguments), "message",
                           GetEnvConfig(e), now, cache, e, id)
           [] req.name = "teams_post_rich_message" ->
                PostParsed(Started(req), PostRichMessageParse(req.arguments), "rich",
                           GetEnvConfig(e), now, cache, e, id)
           [] OTHER -> Failed(Started(req), Err("Unknown tool", 0, NoBody, NoPath))

\* ---------------------------------------------------------------- inputs
ExpiresIn == {Undefined, Str(1), Num(420)}

\* The answers the token endpoint can give to the exchange of call number id
\* (a token it issues is named after the call): no answer at all is the
\* absence of a step.
TokenFailures ==
    {[net |-> "response", ok |-> FALSE, status |-> 401, text |-> "invalid_client",
      json |-> "none", access_token |-> Undefined, expires_in |-> Undefined]}

TokenResponses(id) ==
    {[net |-> "reject", ok |-> FALSE, status |-> 0, text |-> NoBody,
      json |-> "none", access_token |-> Undefined, expires_in |-> Undefined]}
    \cup TokenFailures
    \cup {[net |-> "response", ok |-> TRUE, status |-> 200, text |-> NoBody,
           json |-> j, access_token |-> Undefined, expires_in |-> Undefined] :
            j \in {"unparseable", "null"}}
    \cup {[net |-> "response", ok |-> TRUE, status |-> 200, text |-> NoBody,
           json |-> "object", access_token |-> t, expires_in |-> x] :
            t \in {Undefined, Str(0), Num(id), Str(id)}, x \in ExpiresIn}

AllTokenResponses == UNION {TokenResponses(id) : id \in 1..MaxCalls}

SendResponses ==
    {[net |-> "reject", ok |-> FALSE, status |-> 0, text |-> NoBody, json |-> "none"]}
    \cup {[net |-> "response", ok |-> FALSE, status |-> 401, text |-> "unauthorized",
           json |-> "none"]}
    \cup {[net |-> "response", ok |-> TRUE, status |-> 200, text |-> NoBody, json |-> j] :
            j \in {"unparseable", "null", "object"}}

FullEnv ==
    [appId |-> TRUE, appPassword |-> TRUE, tenantId |-> FALSE,
     serviceUrl |-> TRUE, conversationId |-> TRUE, threadId |-> Undefined]

\* The environments: the required variables alone, then with the tenant
\* identifier, then with each required one left out.
Envs ==
    {FullEnv,
     [FullEnv EXCEPT !.tenantId = TRUE],
     [FullEnv EXCEPT !.appId = FALSE],
     [FullEnv EXCEPT !.appPassword = FALSE],
     [FullEnv EXCEPT !.serviceUrl = FALSE],
     [FullEnv EXCEPT !.conversationId = FALSE]}

\* --------------------------------------------------------------- actions
Init ==
    /\ phase = "boot"
    /\ env \in Envs
    /\ clock = 0
    /\ tokenCache = NullCache
    /\ call = [c \in Callers |-> IdleCall]
    /\ reply = NoReply
    /\ ncalls = 0

\* runStdioServer: without both credentials the process exits, otherwise the
\* request handler is installed.
RunStdioServer ==
    /\ phase = "boot"
    /\ phase' = IF MissingCredentials(env) THEN "exited" ELSE "serving"
    /\ reply' = NoReply
    /\ UNCHANGED <<env, clock, tokenCache, call, ncalls>>

\* Time passes.
Tick ==
    /\ phase # "exited"
    /\ clock < MaxTicks * TickMs
    /\ clock' = clock + TickMs
    /\ reply' = NoReply
    /\ UNCHANGED <<phase, env, tokenCache, call, ncalls>>

\* The handler of caller c reaches rec: at its end the answer goes out and
\* the activation is gone, otherwise it waits for the network.
Settle(c, rec) ==
    /\ call' = [call EXCEPT ![c] = IF rec.pc = "done" THEN IdleCall ELSE rec]
    /\ reply' = IF rec.pc = "done"
                THEN [result |-> rec.result,
                      tokenPosts |-> rec.tokenPosts, sendPosts |-> rec.sendPosts,
                      arguments |-> rec.arguments]
                ELSE NoReply

\* A tools/call request arrives and the handler runs to its first network
\* await or to its end.
CallTool(c, req) ==
    /\ phase = "serving"
    /\ call[c].pc = "idle"
    /\ ncalls < MaxCalls
    /\ ncalls' = ncalls + 1
    /\ Settle(c, HandleCall(req, clock, tokenCache, env, ncalls + 1))
    /\ UNCHANGED <<phase, env, clock, tokenCache>>

\* The token exchange of c's call settles: getBotConnectorToken finishes and,
\* when it returned a token, sendActivity POSTs the message.
TokenResponse(c, r) ==
    /\ call[c].pc = "awaitToken"
    /\ r \in TokenResponses(call[c].reqId)
    /\ LET g == GetTokenFinish(call[c].now, tokenCache, r) IN
        /\ tokenCache' = g.cache
        /\ Settle(c, IF g.threw THEN Failed(call[c], g.error)
                     ELSE PostActivity([call[c] EXCEPT !.token = g.token]))
    /\ UNCHANGED <<phase, env, clock, ncalls>>

\* SendResponse that drops the cached token when the POST fails.
SendResponseClearing(c, r) ==
    /\ call[c].pc = "awaitSend"
    /\ Settle(c, [call[c] EXCEPT !.pc = "done", !.result = SendFinish(call[c], r)])
    /\ tokenCache' = IF r.net = "response" /\ r.ok THEN tokenCache ELSE NullCache
    /\ UNCHANGED <<phase, env, clock, ncalls>>

\* The message POST of c's call settles and the handler returns or throws.
SendResponse(c, r) ==
    /\ call[c].pc = "awaitSend"
    /\ Settle(c, [call[c] EXCEPT !.pc = "done", !.result = SendFinish(call[c], r)])
    /\ UNCHANGED <<phase, env, clock, tokenCache, ncalls>>

Next ==
    \/ RunStdioServer
    \/ Tick
    \/ \E c \in Callers, req \in Requests : CallTool(c, req)
    \/ \E c \in Callers, r \in AllTokenResponses : TokenResponse(c, r)
    \/ \E c \in Callers, r \in SendResponses : SendResponse(c, r)

Spec == Init /\ [][Next]_vars

\* The time that passes is the one thing the runtime guarantees: no answer of
\* the network is, and the handlers set no timer.
SpecFair == Spec /\ WF_vars(Tick) /\ WF_vars(RunStdioServer)

\* The request handler on its own, entered in every environment: its guards
\* for absent credentials are checked here, since runStdioServer lets no
\* process without credentials reach them.
InitBroker ==
    /\ phase = "serving"
    /\ env \in Envs
    /\ clock = 0
    /\ tokenCache = NullCache
    /\ call = [c \in Callers |-> IdleCall]
    /\ reply = NoReply
    /\ ncalls = 0

NextBroker ==
    \/ Tick
    \/ \E c \in Callers, req \in Requests : CallTool(c, req)
    \/ \E c \in Callers, r \in AllTokenResponses : TokenResponse(c, r)
    \/ \E c \in Callers, r \in SendResponses : SendResponse(c, r)

SpecBroker == InitBroker /\ [][NextBroker]_vars

\* The server with threads: TEAMS_THREAD_ID absent, empty or set, and the
\* calls of ThreadRequests made one after the other by one client.
ThreadEnvs == {[FullEnv EXCEPT !.threadId = t] : t \in {Undefined, Str(0), Str(7)}}

\* The token endpoint refusing, or issuing call id's token for 420 seconds.
ThreadTokenResponses ==
    TokenFailures
    \cup {[net |-> "response", ok |-> TRUE, status |-> 200, text |-> NoBody,
           json |-> "object", access_token |-> Str(id), expires_in |-> Num(420)] :
            id \in 1..MaxCalls}

InitThread ==
    /\ phase = "boot"
    /\ env \in ThreadEnvs
    /\ clock = 0
    /\ tokenCache = NullCache
    /\ call = [c \in Callers |-> IdleCall]
    /\ reply = NoReply
    /\ ncalls = 0

NextThread ==
    \/ RunStdioServer
    \/ Tick
    \/ \E req \in ThreadRequests : CallTool("a", req)
    \/ \E r \in ThreadTokenResponses : TokenResponse("a", r)
    \/ \E r \in SendResponses : SendResponse("a", r)

SpecThread == InitThread /\ [][NextThread]_vars

\* The server at the last call the bound allows, one minute after earlier
\* calls that named no tool: a client makes a call of CardRequests, whose
\* arguments the handler validates before anything else.
InitCards ==
    /\ phase = "serving"
    /\ env = FullEnv
    /\ clock = TickMs
    /\ tokenCache = NullCache
    /\ call = [c \in Callers |-> IdleCall]
    /\ reply = NoReply
    /\ ncalls = MaxCalls - 1

NextCards ==
    \/ \E req \in CardRequests : CallTool("a", req)
    \/ \E r \in ThreadTokenResponses : TokenResponse("a", r)
    \/ \E r \in SendResponses : SendResponse("a", r)

SpecCards == InitCards /\ [][NextCards]_vars

\* ================================================================ claims
FiveMinutes == 5 * 60 * 1000
Fresh == ~tokenCache.null /\ tokenCache.expiresAt > clock + FiveMinutes
MissingCredentialsMessage == "TEAMS_BOT_APP_ID and TEAMS_BOT_APP_PASSWORD must be set"
TokenRequestFailedMessage == "Failed to get Bot Connector token"

\* A step in which c's handler starts and is still running after it.
Entered(c) == ncalls' = ncalls + 1 /\ call[c].pc = "idle" /\ call'[c].pc # "idle"
\* A step in which a handler starts and ends at once with the given message.
EndedAtOnce(msg) == ncalls' = ncalls + 1 /\ call' = call /\ reply'.result.msg = msg

\* C1: a call of getBotConnectorToken made while a token is cached whose
\* expiry is more than five minutes after the clock returns that token, sends
\* no exchange request and leaves the cache as it is.
C1_CacheHit ==
    [][Fresh =>
          /\ ~EndedAtOnce(MissingCredentialsMessage)
          /\ \A c \in Callers :
                Entered(c) =>
                    /\ call'[c].pc = "awaitSend"
                    /\ call'[c].token = tokenCache.token
                    /\ call'[c].tokenPosts = 0
                    /\ call'[c].tokenUrl = "none"
                    /\ tokenCache' = tokenCache]_vars

\* A call was served from the cache and is about to send its message.
C1_Witness == \E c \in Callers : call[c].pc = "awaitSend" /\ call[c].hit

\* C2: with the credentials present, a call of getBotConnectorToken made
\* while the cache is empty or its expiry is at most five minutes after the
\* clock sends exactly one exchange request; when the exchange succeeds
\* tokenCache holds the new token, which is the one returned, not the old.
C2_CacheMiss ==
    /\ [](\A c \in Callers :
            /\ call[c].pc = "awaitToken" => call[c].tokenPosts = 1
            /\ (call[c].pc = "awaitSend" /\ ~call[c].hit) => call[c].tokenPosts = 1)
    /\ [][\A c \in Callers :
            /\ (Entered(c) /\ ~Fresh /\ env.appId /\ env.appPassword) =>
                    /\ call'[c].pc = "awaitToken"
                    /\ call'[c].tokenPosts = 1
            /\ (call[c].pc = "awaitToken" /\ call'[c].pc = "awaitSend") =>
                    /\ ~tokenCache'.null
                    /\ tokenCache'.token = call'[c].token
                    /\ call'[c].token[2] = call[c].reqId
                    /\ call'[c].tokenPosts = 1
                    /\ (~tokenCache.null => call'[c].token # tokenCache.token)]_vars

\* The first call has ended well after an exchange of its own, the second
\* missed the cache and its exchange succeeded: the cache holds its token.
C2_Witness ==
    /\ reply.result.ok /\ reply.tokenPosts = 1
    /\ ~tokenCache.null
    /\ tokenCache.token[2] = 2
    /\ \E c \in Callers : call[c].pc = "awaitSend" /\ ~call[c].hit /\ call[c].reqId = 2

\* C3: when the token endpoint answers with a non-success status the call
\* ends with the token-request-failed error, no message is POSTed and
\* tokenCache is what it was, empty or stale.
C3_TokenRequestFailed ==
    [][\A c \in Callers : \A r \in TokenFailures :
          (call[c].pc = "awaitToken" /\ TokenResponse(c, r)) =>
              /\ call'[c].pc = "idle"
              /\ ~reply'.result.ok
              /\ reply'.result.msg = TokenRequestFailedMessage
              /\ reply'.sendPosts = 0
              /\ tokenCache' = tokenCache]_vars

\* A refresh of a cached token failed with that error and the token is still
\* cached.
C3_Witness ==
    /\ reply.result.msg = TokenRequestFailedMessage
    /\ ~tokenCache.null
    /\ ncalls = 2

InvalidTokenResponseMessages ==
    {"Failed to parse Bot Connector token response as JSON",
     "Invalid token response: missing access_token or expires_in"}

StructurallyInvalid(r) ==
    \/ r.json \in {"unparseable", "null"}
    \/ TypeOf(r.access_token) # "string"
    \/ TypeOf(r.expires_in) # "number"

\* C4: when the token endpoint answers with a success status and a body that
\* is unparseable, has no token string or has no numeric expires_in, the call
\* ends with an invalid-token-response error and tokenCache is what it was.
C4_InvalidTokenResponse ==
    [][\A c \in Callers :
          call[c].pc = "awaitToken" =>
          \A r \in TokenResponses(call[c].reqId) :
          (r.net = "response" /\ r.ok /\ StructurallyInvalid(r) /\ TokenResponse(c, r)) =>
              /\ call'[c].pc = "idle"
              /\ reply'.result.msg \in InvalidTokenResponseMessages
              /\ tokenCache' = tokenCache]_vars

\* The arguments of req pass the handler's checks up to sendActivity.
ValidArguments(req) ==
    /\ req.hasParams
    /\ \/ req.name = "teams_post_message" /\ PostMessageIssues(req.arguments) = <<>>
       \/ req.name = "teams_post_rich_message"
            /\ PostRichMessageIssues(req.arguments) = <<>>

\* C5: while the client identifier or the client secret is absent, every call
\* that reaches getBotConnectorToken ends with the missing-credentials error
\* and no exchange request (and no message) is ever sent.
C5_MissingCredentials ==
    [][(~env.appId \/ ~env.appPassword) =>
          /\ \A c \in Callers : call'[c].pc = "idle"
          /\ \A c \in Callers : \A req \in Requests :
                (ncalls' # ncalls /\ ValidArguments(req)
                    /\ env.serviceUrl /\ env.conversationId /\ CallTool(c, req)) =>
                    /\ reply'.result.msg = MissingCredentialsMessage
                    /\ reply'.tokenPosts = 0
                    /\ reply'.sendPosts = 0]_vars

\* A call ended with the missing-credentials error.
C5_Witness ==
    /\ reply.result.msg = MissingCredentialsMessage
    /\ (~env.appId \/ ~env.appPassword)
    /\ reply.tokenPosts = 0

ValidLifetimes == {x[2] : x \in {y \in ExpiresIn : TypeOf(y) = "number"}}

\* C6: two interleaved calls send at most one exchange request each, two in
\* all; a call whose exchange succeeds returns the token of its own exchange,
\* and at that step tokenCache becomes that token with that call's expiry,
\* whatever a concurrent call wrote before (the last writer wins).
C6_ConcurrentRefresh ==
    /\ [](/\ \A c \in Callers : call[c].tokenPosts <= 1
          /\ \A c, d \in Callers :
                c # d => call[c].tokenPosts + call[d].tokenPosts <= 2)
    /\ [][\A c \in Callers :
            (call[c].pc = "awaitToken" /\ call'[c].pc = "awaitSend") =>
                /\ call'[c].token[2] = call[c].reqId
                /\ tokenCache'.token = call'[c].token
                /\ \E x \in ValidLifetimes :
                        tokenCache'.expiresAt = call[c].now + x * 1000
                /\ \A d \in Callers \ {c} : call'[d] = call[d]]_vars

\* Both exchanges were in flight together: the second call's finished first,
\* the first call's last, and the cache holds the first call's token.
C6_Witness ==
    \E c, d \in Callers :
        /\ c # d
        /\ call[c].pc = "awaitSend" /\ ~call[c].hit /\ call[c].token[2] = 1
        /\ call[d].pc = "awaitSend" /\ ~call[d].hit /\ call[d].token[2] = 2
        /\ tokenCache.token = call[c].token

\* C7: the exchange request goes to the tenant's endpoint when a tenant
\* identifier is configured and to the botframework.com endpoint otherwise.
C7_TenantEndpoint ==
    \A c \in Callers :
        call[c].tokenPosts > 0 =>
            call[c].tokenUrl = IF env.tenantId THEN "tenant" ELSE "botframework.com"

\* C8: every call that has started a token exchange eventually gets past it,
\* cut off by a timeout when the token endpoint never answers (and likewise
\* for the message POST, which waits in the same way).
C8_Completes ==
    \A c \in Callers : (call[c].pc = "awaitToken") ~> (call[c].pc # "awaitToken")

\* C9: the error of a non-success status of the token endpoint carries the
\* status and the response body.
C9_ErrorCarriesBody ==
    [][\A c \in Callers : \A r \in TokenFailures :
          (call[c].pc = "awaitToken" /\ TokenResponse(c, r)) =>
              /\ reply'.result.status = r.status
              /\ reply'.result.body = r.text]_vars

\* C10: a tool call that succeeds has POSTed exactly one message; the POST is
\* made only once getBotConnectorToken has returned a token, from the cache or
\* from the call's exchange, and carries that token; a call whose arguments
\* are rejected or whose token acquisition fails POSTs nothing.
C10_Ordering ==
    /\ [](/\ \A c \in Callers :
                /\ call[c].pc = "awaitSend" =>
                        /\ call[c].sendPosts = 1
                        /\ call[c].bearer = call[c].token
                        /\ Truthy(call[c].bearer)
                /\ call[c].pc \in {"idle", "awaitToken"} => call[c].sendPosts = 0
          /\ reply.result.ok => reply.sendPosts = 1)
    /\ [][\A c \in Callers :
            /\ call'[c].sendPosts > call[c].sendPosts =>
                    \/ /\ call[c].pc = "idle"
                       /\ Fresh
                       /\ call'[c].bearer = tokenCache.token
                    \/ /\ call[c].pc = "awaitToken"
                       /\ call'[c].bearer = tokenCache'.token
                       /\ call'[c].bearer[2] = call[c].reqId
            /\ \A req \in Requests :
                    (ncalls' # ncalls /\ ~ValidArguments(req) /\ CallTool(c, req)) =>
                        call'[c].pc = "idle" /\ reply'.sendPosts = 0
            /\ (call[c].pc = "awaitToken" /\ call'[c].pc = "idle") =>
                    ~reply'.result.ok /\ reply'.sendPosts = 0]_vars

\* A tool call succeeded after an exchange of its own and one message POST.
C10_Witness ==
    reply.result.ok /\ reply.sendPosts = 1 /\ reply.tokenPosts = 1

\* The errors of getEnvConfig and of getBotConnectorToken for a required
\* variable that is not set.
ConfigMissingMessages ==
    {"TEAMS_SERVICE_URL is not set", "TEAMS_CONVERSATION_ID is not set",
     MissingCredentialsMessage}

\* C11: a process in which a required value (client identifier, client
\* secret, service URL, conversation identifier) is absent exits at startup
\* and serves no tool call, so no tool call fails for a missing value.
C11_FatalAtStartup ==
    /\ ncalls > 0 =>
            env.appId /\ env.appPassword /\ env.serviceUrl /\ env.conversationId
    /\ reply.result.msg \notin ConfigMissingMessages

\* A thread identifier that is there: a non-empty string.
Given(t) == TypeOf(t) = "string" /\ t[2] # 0

\* The reply target the arguments and the environment determine.
ReplyTarget(req, e) ==
    IF Given(req.arguments.thread_id) THEN req.arguments.thread_id
    ELSE IF Given(e.threadId) THEN e.threadId
    ELSE Undefined

\* The reply target of a running call: its replyToId when that is truthy (an
\* empty one is no target to sendActivity and to the success text alike).
TargetOf(rec) == IF Truthy(rec.replyToId) THEN rec.replyToId ELSE Undefined

\* C12: the reply target of a tool call is its thread_id argument when that
\* is given, else TEAMS_THREAD_ID when set, else none; the message is POSTed
\* to the reply endpoint of the target exactly when there is one and to the
\* activities endpoint otherwise, and the success text is 'Reply sent to
\* thread' exactly when there is one.
C12_ThreadResolution ==
    /\ [](\A c \in Callers :
            call[c].sendPosts > 0 =>
                call[c].sendUrl = IF TargetOf(call[c]) = Undefined
                                  THEN <<"activities">>
                                  ELSE <<"activities", TargetOf(call[c])>>)
    /\ [][\A c \in Callers :
            /\ \A req \in ThreadRequests :
                    (ncalls' # ncalls /\ CallTool(c, req) /\ call'[c].pc # "idle") =>
                        TargetOf(call'[c]) = ReplyTarget(req, env)
            /\ (call[c].pc # "idle" /\ call'[c].pc # "idle") =>
                    call'[c].replyToId = call[c].replyToId
            /\ (call[c].pc = "awaitSend" /\ reply'.result.ok) =>
                    (reply'.result.text = "Reply sent to thread"
                        <=> TargetOf(call[c]) # Undefined)]_vars

\* A message went to the reply endpoint of the argument's thread although
\* TEAMS_THREAD_ID names another.
C12_Witness ==
    \E c \in Callers :
        /\ call[c].sendPosts = 1
        /\ call[c].sendUrl = <<"activities", Str(2)>>
        /\ env.threadId = Str(7)

\* The arguments of the latest call were rejected by their schema.
Rejected == reply.result.msg = "ZodError"
\* The ZodError of the latest call names the path p.
NamesPath(p) == \E i \in 1..Len(reply.result.path) : reply.result.path[i] = p
\* The call of c is past the validation of its arguments.
Accepted(c) == call[c].pc # "idle"

\* Arguments with a fallback text string or a card that follows the grammar,
\* and nothing else wrong.
TextOrCard(a) ==
    /\ a.defined
    /\ a.thread_id = Undefined
    /\ a.text = Undefined \/ TypeOf(a.text) = "string"
    /\ a.card = Undefined \/ a.card \in GoodCards
    /\ TypeOf(a.text) = "string" \/ a.card \in GoodCards

\* C13: the arguments of a rich message are rejected when both text and card
\* are absent, with text and card as the place of the error, and are accepted
\* whenever a text string or a valid card is there, whatever the string and
\* the card.
C13_TextOrCard ==
    /\ \A c \in Callers :
            Accepted(c) /\ call[c].arguments.defined =>
                call[c].arguments.text # Undefined \/ call[c].arguments.card # Undefined
    /\ (Rejected /\ reply.arguments.defined
            /\ reply.arguments.text = Undefined /\ reply.arguments.card = Undefined) =>
                NamesPath(<<"text", "card">>)
    /\ Rejected => ~TextOrCard(reply.arguments)

\* The card with the defaults of the schema: version 1.4 when it has none.
WithDefaults(card) == Obj(card[2] @@ [version |-> S("1.4")])

\* A Container holding a ColumnSet holding Columns holding Containers of
\* TextBlocks, as the body of a card.
NestedCard ==
    Card(<<Container(<<ColumnSet(<<Column(<<Container(<<TextBlock(Str(3)),
                                                        TextBlock(Str(1))>>)>>),
                                   Column(<<Container(<<TextBlock(Str(2)),
                                                        TextBlock(Str(1))>>)>>)>>)>>)>>)

\* C14: every card that follows the grammar, nested ones included, is
\* accepted, and the card the handler goes on with is the input with the
\* defaults applied: the same elements in the same order at every level.
C14_RoundTrip ==
    /\ \A c \in Callers :
            Accepted(c) /\ call[c].arguments.card \in GoodCards =>
                call[c].card = WithDefaults(call[c].arguments.card)
    /\ (Rejected /\ TypeOf(reply.arguments.text) \in {"undefined", "string"}) =>
            reply.arguments.card \notin GoodCards

C14_Witness ==
    \E c \in Callers :
        /\ Accepted(c)
        /\ call[c].arguments.card = NestedCard
        /\ call[c].card = WithDefaults(NestedCard)
        /\ Field(call[c].card, "version") = S("1.4")

\* The body of the card has more elements than the grammar allows.
LongBody(card) ==
    /\ TypeOf(card) = "object"
    /\ TypeOf(Field(card, "body")) = "array"
    /\ Len(Field(card, "body")[2]) > MaxBody

\* The paths of the facts of the FactSets with more facts than the grammar
\* allows, in the value x at the path and in the lists of x at any depth.
RECURSIVE LongFacts(_, _)
LongFacts(x, path) ==
    IF TypeOf(x) # "object" THEN {}
    ELSE (IF /\ Field(x, "type") = S("FactSet")
             /\ TypeOf(Field(x, "facts")) = "array"
             /\ Len(Field(x, "facts")[2]) > MaxFacts
          THEN {path \o <<"facts">>} ELSE {})
         \cup UNION {UNION {LongFacts(x[2][k][2][i], path \o <<k, ToString(i - 1)>>) :
                                i \in 1..Len(x[2][k][2])} :
                        k \in {j \in DOMAIN x[2] : TypeOf(x[2][j]) = "array"}}

\* Cards with a list of items and a list of columns longer than any bound of
\* the grammar.
LongLists ==
    {Card(<<Container(Repeat(TextBlock(Str(1)), MaxBody + 1))>>),
     Card(<<ColumnSet(Repeat(Column(<<TextBlock(Str(1))>>), MaxFacts + 1))>>)}

\* C15: a card with a body of more than 50 elements is rejected and the error
\* names the body; a card with a FactSet of more than 10 facts, at any depth,
\* is rejected and the error names the facts of that FactSet; the items of a
\* Container and the columns of a ColumnSet may be of any length.
C15_LengthBounds ==
    /\ \A c \in Callers :
            Accepted(c) =>
                /\ ~LongBody(call[c].arguments.card)
                /\ LongFacts(call[c].arguments.card, <<"card">>) = {}
    /\ (Rejected /\ LongBody(reply.arguments.card)) => NamesPath(<<"card", "body">>)
    /\ Rejected =>
            \A p \in LongFacts(reply.arguments.card, <<"card">>) : NamesPath(p)
    /\ Rejected => reply.arguments.card \notin LongLists

C15_Witness ==
    /\ Rejected
    /\ ~LongBody(reply.arguments.card)
    /\ \E p \in LongFacts(reply.arguments.card, <<"card">>) :
            Len(p) > 8 /\ NamesPath(p)

\* The types of the elements of a body and of the items of a Container or a
\* Column, each with its required property and the type of that property.
ElementTypes ==
    [TextBlock |-> <<"text", "string">>, Image |-> <<"url", "string">>,
     FactSet |-> <<"facts", "array">>, ColumnSet |-> <<"columns", "array">>,
     Container |-> <<"items", "array">>, ActionSet |-> <<"actions", "array">>]

\* The node x is not of a type of its position (an element, or a column of a
\* ColumnSet), or lacks the required property of its type, or has it with
\* another type.
InvalidNode(x, position) ==
    \/ TypeOf(x) # "object"
    \/ position = "column" /\ Field(x, "type") # S("Column")
    \/ position = "element" /\
          \A t \in DOMAIN ElementTypes :
              \/ Field(x, "type") # S(t)
              \/ TypeOf(Field(x, ElementTypes[t][1])) # ElementTypes[t][2]

\* The lists of nodes of the node x, with the position of their nodes.
Lists(x) ==
    CASE Field(x, "type") = S("Container") -> {<<"items", "element">>}
      [] Field(x, "type") = S("Column") -> {<<"items", "element">>}
      [] Field(x, "type") = S("ColumnSet") -> {<<"columns", "column">>}
      [] OTHER -> {}

\* The node x or a node in its lists, at any depth, is invalid.
RECURSIVE HasInvalid(_, _)
HasInvalid(x, position) ==
    \/ InvalidNode(x, position)
    \/ \E l \in Lists(x) :
          /\ TypeOf(Field(x, l[1])) = "array"
          /\ \E i \in 1..Len(Field(x, l[1])[2]) : HasInvalid(Field(x, l[1])[2][i], l[2])

\* The body of the card holds an invalid node, at any depth.
InvalidBody(card) ==
    /\ TypeOf(card) = "object"
    /\ TypeOf(Field(card, "body")) = "array"
    /\ \E i \in 1..Len(Field(card, "body")[2]) :
            HasInvalid(Field(card, "body")[2][i], "element")

\* A card with a text block of a numeric text in a Container in a Column of a
\* ColumnSet in a Container.
InvalidNested ==
    Card(<<Container(<<ColumnSet(<<Column(<<Container(<<TextBlock(Str(3)),
                                                        TextBlock(Num(1))>>)>>),
                                   Column(<<Container(<<TextBlock(Str(2)),
                                                        TextBlock(Str(1))>>)>>)>>)>>)>>)

\* C16: no card is accepted while a node of its body, or of the items of a
\* Container, the items of a Column or the columns of a ColumnSet at any
\* depth, is of a type its position does not allow or lacks a required
\* property of its type or has it with another type.
C16_ClosedUnion ==
    \A c \in Callers : Accepted(c) => ~InvalidBody(call[c].arguments.card)

C16_Witness ==
    /\ Rejected
    /\ reply.arguments.card = InvalidNested
    /\ InvalidBody(reply.arguments.card)
    /\ reply.arguments.text = Undefined

\* C17: tokenCache is null or holds one token string and one numeric expiry,
\* both of one successful exchange response with a token string and a
\* numeric expires_in: every step that changes tokenCache is the end of such
\* an exchange and writes its token and its expiry.
C17_CacheValid ==
    /\ [](tokenCache.null \/ TypeOf(tokenCache.token) = "string")
    /\ [][tokenCache' # tokenCache =>
            \E c \in Callers : \E r \in TokenResponses(call[c].reqId) :
                /\ r.net = "response" /\ r.ok /\ ~StructurallyInvalid(r)
                /\ TokenResponse(c, r)
                /\ ~tokenCache'.null
                /\ tokenCache'.token = r.access_token
                /\ tokenCache'.expiresAt = call[c].now + r.expires_in[2] * 1000]_vars

\* C18 as stated: the expiry written at the end of a successful exchange is
\* the time of that step, at which the token is acquired, plus expires_in
\* times 1000, and a call is served from the cache only while the cached
\* expiry is more than five minutes after the clock.
C18_ExpiryFromAcquisition ==
    [][\A c \in Callers :
          /\ \A r \in TokenResponses(call[c].reqId) :
                (TokenResponse(c, r) /\ tokenCache' # tokenCache) =>
                    tokenCache'.expiresAt = clock + r.expires_in[2] * 1000
          /\ (Entered(c) /\ call'[c].hit) =>
                    tokenCache.expiresAt > clock + FiveMinutes]_vars

\* C18, amended: the expiry written at the end of a successful exchange is
\* the time the call read when it entered getBotConnectorToken, before the
\* exchange, plus expires_in times 1000, which is never later than the time
\* of acquisition plus the lifetime; and a call is served from the cache only
\* while the cached expiry is more than five minutes after the clock.
C18_ExpiryFromCallStart ==
    [][\A c \in Callers :
          /\ \A r \in TokenResponses(call[c].reqId) :
                (TokenResponse(c, r) /\ tokenCache' # tokenCache) =>
                    /\ tokenCache'.expiresAt = call[c].now + r.expires_in[2] * 1000
                    /\ call[c].now <= clock
          /\ (Entered(c) /\ call'[c].hit) =>
                    tokenCache.expiresAt > clock + FiveMinutes]_vars

\* A token was cached by an exchange that ended after the clock had moved on
\* from the time its call had read.
C18_Witness ==
    \E c \in Callers : \E x \in ValidLifetimes :
        /\ call[c].pc = "awaitSend" /\ ~call[c].hit
        /\ tokenCache.token = call[c].token
        /\ tokenCache.expiresAt = call[c].now + x * 1000
        /\ call[c].now + TickMs = clock

\* C19: tokenCache changes only in the step in which a call's exchange ends
\* in success; a call served from the cache, a call that ends for missing
\* credentials, a failed exchange, and the end of a message POST, failed or
\* not, leave it as it is; and once it holds a token it is never null again.
C19_CacheFrame ==
    [][/\ tokenCache' # tokenCache =>
            \E c \in Callers :
                /\ call[c].pc = "awaitToken" /\ call'[c].pc = "awaitSend"
                /\ ~call'[c].hit
                /\ tokenCache'.token = call'[c].token
       /\ ~tokenCache.null => ~tokenCache'.null
       /\ \A c \in Callers :
            /\ (Entered(c) /\ call'[c].hit) => tokenCache' = tokenCache
            /\ (call[c].pc = "awaitToken" /\ call'[c].pc = "idle") =>
                    tokenCache' = tokenCache
            /\ (call[c].pc = "awaitSend" /\ call'[c].pc = "idle") =>
                    tokenCache' = tokenCache
       /\ EndedAtOnce(MissingCredentialsMessage) => tokenCache' = tokenCache]_vars

\* A message POST was answered 401 while a token was cached, and the token is
\* still cached.
C19_Witness ==
    /\ reply.sendPosts = 1
    /\ reply.result.status = 401
    /\ ~reply.result.ok
    /\ ~tokenCache.null

====
